---- MODULE Spec2Model ----
(***************************************************************************)
(* Verification model of the stream-count harvesting backend:              *)
(*   - services/token_manager.py   TokenManager (lock + cache + browser)   *)
(*   - services/unofficial_spotify.py  retry loops of the harvest client   *)
(*   - tasks.py / celery_app.py    page cursor and the Celery task chain   *)
(*   - services/cockroach.py       save_complete_album and its statements  *)
(* Each component has its own specification over the shared variables.     *)
(***************************************************************************)
EXTENDS Integers, Sequences, FiniteSets, TLC

(***************************************************************************)
(* Bounds of the model (not program constants).                            *)
(***************************************************************************)
NumCallers == 2
MaxCalls == 3
MaxTicks == 2
MaxRestarts == 1
NumConns == 2
MaxSaves == 2
MaxDays == 1
NumWorkers == 2
MaxAlbums == 3
MaxTriggers == 1
\* AlbumTracker.batch_size is 50 (tasks.py:16); the model scales the page down
batch_size == 2

(***************************************************************************)
(* Program constants.                                                      *)
(***************************************************************************)
SafetyMargin == 300
SafetyMarginMs == 300000
TokenLifetime == 3600
TokenLifetimeMs == 3600000
SecondsPerDay == 86400

VARIABLES
    now,        \* time.time(), whole seconds
    ticks,      \* number of clock advances so far (bounded)
    tm,         \* fields of the TokenManager instance
    cache,      \* content of tokens/spotify_tokens.json
    lock,       \* owner of TokenManager.lock, 0 when free
    call,       \* per caller: position in get_tokens and what the call did
    gen,        \* number of pairs the browser has produced so far
    produced,   \* produced[g] = token_expiry set with the g-th pair
    allConcurrent, \* no call was issued after another call had completed
    calls,      \* number of get_tokens invocations so far (bounded)
    fetchStarted, \* number of browser sessions launched so far
    restarts,   \* number of times the process was restarted (bounded)
    gat,        \* one execution of UnofficialSpotifyService.get_album_tracks
    fbt,        \* one execution of TokenManager._fetch_bearer_token
    db,         \* committed rows of the albums, tracks and streams tables
    txn,        \* per connection: the save_complete_album call in progress
    saves,      \* number of save_complete_album calls so far (bounded)
    lastSaved,  \* arguments of the most recently committed call
    lastRepeat, \* the most recent commit repeated the arguments of the one before
    catalog,    \* album ids the catalog query sees, in its ORDER BY order
    current_offset, \* per worker process: AlbumTracker.current_offset
    albumsQ,    \* fetch_albums_batch messages waiting in the broker
    metricsQ,   \* fetch_album_metrics messages waiting in the broker
    uploadQ,    \* upload_album_metrics messages waiting in the broker
    worker,     \* per worker process: the task it is executing
    claimed,    \* offsets handed out by get_next_batch since the last reset()
    claims,     \* number of get_next_batch calls since the last reset()
    dispatches, \* executions of fetch_albums_batch since the last trigger
    triggers,   \* beat triggers so far (bounded)
    results,    \* result records returned by the harvest units
    pageErrors, \* executions of fetch_albums_batch that died in the catalog query
    tracker_lock, \* per worker process: AlbumTracker.lock is held
    writes,     \* writes of current_offset so far: by which method, lock held or not
    utm,        \* per worker process: fields of its unofficial_spotify.TokenManager
    ucall,      \* per worker process: the get_tokens call of the unit it runs
    ucalls,     \* number of unofficial get_tokens invocations so far (bounded)
    clientFetches, \* invocations of _fetch_client_token so far
    bearerFetches, \* invocations of _fetch_bearer_token so far
    uAllConcurrent, \* no unofficial get_tokens call was issued after another had completed
    credWrites, \* writes of held credentials so far: which manager, which method, lock held or not
    streams_table, \* db.py: the rows of table streams, in insertion order
    db_clock,   \* db.py: the last value datetime.now() gave
    history,    \* db.py: the last call of save_stream_count or get_track_history and what it gave
    bucket,     \* per task name, the time in ms of the last start the worker let through (-1: none)
    rate_clock, \* time in ms at the worker's consumer
    rate_log,   \* the task starts so far, as (task, time in ms)
    request_logs, \* rows of request_logs for the client's IP in the last hour, per endpoint
    verdict     \* the last request through verify_api_key and how the dependency ended

tmVars == <<tm, cache, lock, call, gen, produced, allConcurrent, calls, fetchStarted, restarts>>
clockVars == <<now, ticks>>

retryVars == <<gat, fbt>>
dbVars == <<db, txn, saves, lastSaved, lastRepeat>>
pipeVars == <<catalog, current_offset, albumsQ, metricsQ, uploadQ, worker, claimed, claims,
              dispatches, triggers, results, pageErrors, tracker_lock, writes>>

utmVars == <<utm, ucall, ucalls, clientFetches, bearerFetches, uAllConcurrent>>

histVars == <<streams_table, db_clock, history>>

rateVars == <<bucket, rate_clock, rate_log>>

authVars == <<request_logs, verdict>>

vars == <<now, ticks, tm, cache, lock, call, gen, produced, allConcurrent, calls, fetchStarted, restarts,
          gat, fbt, db, txn, saves, lastSaved, lastRepeat,
          catalog, current_offset, albumsQ, metricsQ, uploadQ, worker, claimed, claims,
          dispatches, triggers, results, pageErrors, tracker_lock, writes,
          utm, ucall, ucalls, clientFetches, bearerFetches, uAllConcurrent, credWrites,
          streams_table, db_clock, history, bucket, rate_clock, rate_log,
          request_logs, verdict>>

(***************************************************************************)
(* Clock.                                                                  *)
(***************************************************************************)
TickDeltas == {1, 3299}

Tick ==
    /\ ticks < MaxTicks
    /\ \E d \in TickDeltas : now' = now + d
    /\ ticks' = ticks + 1

(***************************************************************************)
(* services/token_manager.py                                               *)
(***************************************************************************)
Callers == 1..NumCallers

NoToken == <<"none", 0>>
NoPair == <<NoToken, NoToken>>
NoFile == [exists |-> FALSE, bearer_token |-> NoToken, client_token |-> NoToken,
           timestamp |-> 0, expires_at |-> 0]

Truthy(tok) == tok # NoToken

\* self.max_retries of services/token_manager.py; no statement reads it
tm_max_retries == 3

TokenManagerInit ==
    [client_token |-> NoToken, bearer_token |-> NoToken,
     bearer_expiry |-> 0, token_expiry |-> 0]

IdleCall ==
    [pc |-> "idle", evalNow |-> 0,
     evalTokExp |-> 0, evalBearExp |-> 0, evalUsable |-> FALSE,
     readCache |-> FALSE, didFetch |-> FALSE, fetchedOK |-> FALSE,
     resExp |-> 0, resBearExp |-> 0, result |-> NoPair,
     evalCache |-> NoFile, savedOK |-> FALSE]

\* the client check comparing milliseconds against the seconds expiry
ClientTokenValid_UnitMix(m, current_time) ==
    Truthy(m.client_token) /\ current_time * 1000 < m.token_expiry - SafetyMargin

\* the comparison without the buffer
BeforeBuffer_NoBuffer(t, expiry, buffer) == t < expiry

\* "current_time < expiry - 300" and its millisecond form (lines 227, 230, 241, 246)
BeforeBuffer(t, expiry, buffer) == t < expiry - buffer

\* lines 226-231: validity of the held pair with the 5 minute buffer
ClientTokenValid(m, current_time) ==
    Truthy(m.client_token) /\ BeforeBuffer(current_time, m.token_expiry, SafetyMargin)

BearerTokenValid(m, current_time) ==
    Truthy(m.bearer_token) /\ BeforeBuffer(current_time * 1000, m.bearer_expiry, SafetyMarginMs)

\* _try_load_from_cache: the success flag
CacheLoadable(file, t) ==
    file.exists /\ t < file.expires_at - SafetyMargin

\* _try_load_from_cache: the manager after the call
TryLoadFromCache(m, file, t) ==
    IF CacheLoadable(file, t)
    THEN [client_token |-> file.client_token, bearer_token |-> file.bearer_token,
          bearer_expiry |-> file.expires_at * 1000, token_expiry |-> file.expires_at]
    ELSE m

\* the file written with the time of the write as its expiry
SaveToCache_ExpiresNow(file, bearer, client, m, t, ok) ==
    IF ok
    THEN [exists |-> TRUE, bearer_token |-> bearer, client_token |-> client,
          timestamp |-> t, expires_at |-> t]
    ELSE file

\* _save_to_cache: the file written (a failed write is swallowed and leaves the old file)
SaveToCache(file, bearer, client, m, t, ok) ==
    IF ok
    THEN [exists |-> TRUE, bearer_token |-> bearer, client_token |-> client,
          timestamp |-> t, expires_at |-> m.token_expiry]
    ELSE file

\* a failed write of the file raising out of the refresh
AfterSave_WriteRaises(ok) == IF ok THEN "done" ELSE "raised"

\* _save_to_cache lines 183-184: the write error is logged and not re-raised,
\* so the refresh goes on to its return whether or not the file was written
AfterSave(ok) == "done"

\* get_tokens without the lock
LockFree_NoLock(owner) == TRUE

\* async with self.lock: the lock can be taken when nobody holds it
LockFree(owner) == owner = 0

\* a lock that stays held when the block is left
ReleaseLock_Leak(owner, c) == owner

\* leaving "async with self.lock", by return or by exception: the holder
\* releases the lock
ReleaseLock(owner, c) == IF owner = c THEN 0 ELSE owner

\* a caller invokes get_tokens() and queues on the lock
CallGetTokens(c) ==
    /\ call[c].pc \in {"idle", "done", "raised"}
    /\ calls < MaxCalls
    /\ calls' = calls + 1
    /\ allConcurrent' = (allConcurrent /\ \A d \in Callers : call[d].pc \notin {"done", "raised"})
    /\ call' = [call EXCEPT ![c] = [IdleCall EXCEPT !.pc = "waiting"]]
    /\ UNCHANGED <<tm, cache, lock, gen, produced, fetchStarted, restarts, now, ticks, retryVars, dbVars, pipeVars, utmVars, credWrites, histVars, rateVars, authVars>>

\* get_tokens lines 222-259 up to the first suspension: the lock is acquired,
\* validity is evaluated, the cache is tried, and either the held pair is
\* returned or the browser fetch is started with the lock still held
GetTokensEnter(c) ==
    /\ call[c].pc = "waiting"
    /\ LockFree(lock)
    /\ LET current_time == now
           valid0 == ClientTokenValid(tm, current_time) /\ BearerTokenValid(tm, current_time)
           cache_success == CacheLoadable(cache, now)
           m1 == IF valid0 THEN tm ELSE TryLoadFromCache(tm, cache, now)
           valid1 == IF valid0 THEN TRUE
                     ELSE /\ cache_success
                          /\ ClientTokenValid(m1, current_time)
                          /\ BearerTokenValid(m1, current_time)
           snap == [call[c] EXCEPT
                      !.evalNow = current_time,
                      !.evalTokExp = tm.token_expiry, !.evalBearExp = tm.bearer_expiry,
                      !.evalUsable = \/ (Truthy(tm.client_token) /\ Truthy(tm.bearer_token)
                                          /\ now < tm.token_expiry - SafetyMargin)
                                     \/ (cache.exists /\ now < cache.expires_at - SafetyMargin),
                      !.readCache = ~valid0,
                      !.evalCache = cache]
       IN  /\ tm' = m1
           /\ credWrites' = IF ~valid0 /\ cache_success
                             THEN credWrites \cup {[manager |-> "token_manager",
                                                    method |-> "_try_load_from_cache",
                                                    locked |-> lock = 0]}
                             ELSE credWrites
           /\ IF valid1
              THEN /\ call' = [call EXCEPT ![c] = [snap EXCEPT
                                  !.pc = "done",
                                  !.resExp = m1.token_expiry,
                                  !.resBearExp = m1.bearer_expiry,
                                  !.result = <<m1.client_token, m1.bearer_token>>]]
                   /\ lock' = 0
                   /\ fetchStarted' = fetchStarted
              ELSE /\ call' = [call EXCEPT ![c] = [snap EXCEPT
                                  !.pc = "fetching", !.didFetch = TRUE]]
                   /\ lock' = c
                   /\ fetchStarted' = fetchStarted + 1
    /\ UNCHANGED <<cache, gen, produced, calls, allConcurrent, restarts, now, ticks, retryVars, dbVars, pipeVars, utmVars, histVars, rateVars, authVars>>

\* _fetch_tokens_with_playwright lines 137-159 and get_tokens lines 254-259:
\* the browser session observed both tokens
FetchTokensOk(c) ==
    /\ call[c].pc = "fetching"
    /\ \E saved \in BOOLEAN :
        LET current_time == now
            bearer == <<"bearer", gen + 1>>
            client == <<"client", gen + 1>>
            m1 == [tm EXCEPT !.bearer_expiry = current_time * 1000 + TokenLifetimeMs,
                             !.token_expiry = current_time + TokenLifetime]
            m2 == [m1 EXCEPT !.bearer_token = bearer, !.client_token = client]
        IN  /\ cache' = SaveToCache(cache, bearer, client, m1, now, saved)
            /\ tm' = m2
            /\ credWrites' = credWrites \cup {[manager |-> "token_manager",
                                               method |-> "_fetch_tokens_with_playwright",
                                               locked |-> lock = c]}
            /\ gen' = gen + 1
            /\ produced' = Append(produced, m1.token_expiry)
            /\ call' = [call EXCEPT ![c] = [@ EXCEPT
                           !.pc = AfterSave(saved), !.fetchedOK = TRUE, !.savedOK = saved,
                           !.resExp = m1.token_expiry,
                           !.resBearExp = m1.bearer_expiry,
                           !.result = <<m2.client_token, m2.bearer_token>>]]
            /\ lock' = ReleaseLock(lock, c)
    /\ UNCHANGED <<calls, fetchStarted, allConcurrent, restarts, now, ticks, retryVars, dbVars, pipeVars, utmVars, histVars, rateVars, authVars>>

\* the expiries assigned before the check that both tokens were observed
FetchRaised_ExpiriesFirst(m, current_time) ==
    [m EXCEPT !.bearer_expiry = current_time * 1000 + TokenLifetimeMs,
              !.token_expiry = current_time + TokenLifetime]

\* the manager when _fetch_tokens_with_playwright raises at lines 138-146: the
\* assignments of lines 148-154 and 254-257 have not been reached
FetchRaised(m, current_time) == m

\* _fetch_tokens_with_playwright lines 137-146: a token was not observed before
\* the timeout; HTTPException leaves get_tokens and releases the lock
FetchTokensFail(c) ==
    /\ call[c].pc = "fetching"
    /\ call' = [call EXCEPT ![c] = [@ EXCEPT !.pc = "raised"]]
    /\ lock' = ReleaseLock(lock, c)
    /\ tm' = FetchRaised(tm, now)
    /\ UNCHANGED <<cache, gen, produced, calls, fetchStarted, allConcurrent, restarts, now, ticks, retryVars, dbVars, pipeVars, utmVars, credWrites, histVars, rateVars, authVars>>

(***************************************************************************)
(* services/unofficial_spotify.py: the retry loops                         *)
(***************************************************************************)
max_retries == 3

AlbumIds == {"A1", "A2"}

\* what can go wrong in one attempt of get_album_tracks: get_tokens raised,
\* the request failed or returned an error status, the body had the wrong shape
AttemptErrors == {"tokens", "http", "format"}

\* f"Attempt {attempt+1}: {str(e)}"
AttemptMessage(attempt, e) == <<"Attempt", attempt + 1, e>>

\* 2 ** attempt, the whole seconds of the backoff (the jitter is below one second)
Backoff(attempt) == 2 ^ attempt

\* the loop sleeping after every failure, the last one included
ShouldSleep_Always(attempt) == TRUE

\* if attempt < self.max_retries - 1
ShouldSleep(attempt) == attempt < max_retries - 1

\* errors of an attempt that come before a response body is parsed
TransportErrors == AttemptErrors \ {"format"}

\* one entry of tracksV2.items: whether it has "track", and the track's
\* "uri" (0 when absent), "name" ("" when absent), "playcount" (absent, an
\* integer string, or something int() rejects) and "artists" (absent, a list
\* without items, or a list whose first item has a profile name)
Item(track, uri, name, playcount, artists) ==
    [track |-> track, uri |-> uri, name |-> name, playcount |-> playcount, artists |-> artists]

GoodItem(n) == Item(TRUE, n, "title", <<"int", 10 * n>>, "present")

\* the bodies the partner API is taken to answer with, by name
ResponseNames == {"full", "mixed", "allbad", "noartists", "year", "yearmonth", "nounion", "notracks"}

FullResponse ==
    [albumUnion |-> TRUE, artists |-> "present", name |-> "Artist - Title",
     date |-> [present |-> TRUE, parts |-> <<2020, 3, 20>>],
     tracksV2 |-> TRUE, items |-> <<GoodItem(1), GoodItem(2)>>]

Response(r) ==
    CASE r = "full" -> FullResponse
      [] r = "mixed" ->
            [FullResponse EXCEPT !.items =
               << GoodItem(1),
                  Item(TRUE, 2, "title", <<"int", 20>>, "empty"),
                  Item(FALSE, 0, "", <<"absent", 0>>, "absent"),
                  Item(TRUE, 4, "title", <<"absent", 0>>, "absent"),
                  Item(TRUE, 5, "title", <<"bad", 0>>, "present") >>]
      [] r = "allbad" ->
            [FullResponse EXCEPT !.items =
               << Item(TRUE, 0, "title", <<"int", 10>>, "present"),
                  Item(TRUE, 2, "", <<"int", 10>>, "present") >>]
      [] r = "noartists" -> [FullResponse EXCEPT !.artists = "absent"]
      [] r = "year" -> [FullResponse EXCEPT !.date = [present |-> TRUE, parts |-> <<2020>>]]
      [] r = "yearmonth" -> [FullResponse EXCEPT !.date = [present |-> TRUE, parts |-> <<2020, 3>>]]
      [] r = "nounion" -> [FullResponse EXCEPT !.albumUnion = FALSE]
      [] OTHER -> [FullResponse EXCEPT !.tracksV2 = FALSE, !.items = <<>>]

NoDate == [present |-> FALSE, parts |-> <<>>]

\* lines 298-307: time.strptime(..., "%Y-%m-%d") accepts a year, a month and
\* a day; any other string raises, the exception is printed and the date
\* stays None
ParseReleaseDate(date) ==
    IF date.present /\ Len(date.parts) = 3 THEN date ELSE NoDate

\* lines 317-325: the Track built from one item, or the exception
ParseTrack(item) ==
    IF ~item.track THEN [ok |-> FALSE, track |-> <<>>]
    ELSE IF item.artists = "empty" THEN [ok |-> FALSE, track |-> <<>>]
    ELSE IF item.uri = 0 THEN [ok |-> FALSE, track |-> <<>>]
    ELSE IF item.name = "" THEN [ok |-> FALSE, track |-> <<>>]
    ELSE IF item.playcount[1] = "bad" THEN [ok |-> FALSE, track |-> <<>>]
    ELSE [ok |-> TRUE,
          track |-> [track_id |-> item.uri, name |-> item.name,
                     playcount |-> IF item.playcount[1] = "int" THEN item.playcount[2] ELSE 0,
                     artist_name |-> IF item.artists = "present" THEN "artist" ELSE ""]]

\* the loop ended by the first item that raises
RECURSIVE ProcessTracks_StopAtError(_)
ProcessTracks_StopAtError(items) ==
    IF items = <<>> THEN <<>>
    ELSE IF ParseTrack(Head(items)).ok
         THEN <<ParseTrack(Head(items)).track>> \o ProcessTracks_StopAtError(Tail(items))
         ELSE <<>>

\* lines 314-329: the loop over the items; an item that raises is printed
\* and the loop goes on
RECURSIVE ProcessTracks(_)
ProcessTracks(items) ==
    IF items = <<>> THEN <<>>
    ELSE IF ParseTrack(Head(items)).ok
         THEN <<ParseTrack(Head(items)).track>> \o ProcessTracks(Tail(items))
         ELSE ProcessTracks(Tail(items))

NoAlbum ==
    [album_id |-> "none", album_name |-> "", artist_id |-> "", artist_name |-> "",
     tracks |-> <<>>, release_date |-> NoDate]

\* lines 277-346: the body is turned into an AlbumResponse, or the attempt
\* raises (ValueError for a missing section, IndexError for an empty artist
\* list)
ParseAlbum(album_id, data) ==
    IF ~data.albumUnion THEN [ok |-> FALSE, album |-> NoAlbum]
    ELSE IF data.artists = "absent" THEN [ok |-> FALSE, album |-> NoAlbum]
    ELSE IF data.artists = "empty" THEN [ok |-> FALSE, album |-> NoAlbum]
    ELSE IF ~data.tracksV2 THEN [ok |-> FALSE, album |-> NoAlbum]
    ELSE [ok |-> TRUE,
          album |-> [album_id |-> album_id, album_name |-> data.name,
                     artist_id |-> "artist_id", artist_name |-> "artist",
                     tracks |-> ProcessTracks(data.items),
                     release_date |-> ParseReleaseDate(data.date)]]

\* responses holds, per attempt, the name of the body received ("none" when
\* the attempt failed before a body arrived)
GatIdle ==
    [pc |-> "idle", album |-> "A1", attempt |-> 0, errors |-> <<>>,
     history |-> <<>>, slept |-> <<>>, result |-> <<"none", 0>>, detail |-> <<>>,
     responses |-> <<>>, album_response |-> NoAlbum]

\* for attempt in range(self.max_retries): the next iteration, or the raise
\* after the loop with the joined errors
GatLoopNext(g) ==
    IF g.attempt + 1 < max_retries
    THEN [g EXCEPT !.pc = "attempting", !.attempt = g.attempt + 1]
    ELSE [g EXCEPT !.pc = "raised", !.detail = g.errors]

GetAlbumTracksCall ==
    /\ gat.pc = "idle"
    /\ \E a \in AlbumIds : gat' = [GatIdle EXCEPT !.pc = "attempting", !.album = a]
    /\ UNCHANGED <<clockVars, tmVars, fbt, dbVars, pipeVars, utmVars, credWrites, histVars, rateVars, authVars>>

\* lines 272-346: the attempt receives a body that parses and the album
\* response is returned
GetAlbumTracksAttemptOk ==
    /\ gat.pc = "attempting"
    /\ \E r \in ResponseNames :
        /\ ParseAlbum(gat.album, Response(r)).ok
        /\ gat' = [gat EXCEPT !.pc = "returned",
                              !.history = Append(@, "ok"),
                              !.responses = Append(@, r),
                              !.album_response = ParseAlbum(gat.album, Response(r)).album,
                              !.result = <<gat.album, gat.attempt + 1>>]
    /\ UNCHANGED <<clockVars, tmVars, fbt, dbVars, pipeVars, utmVars, credWrites, histVars, rateVars, authVars>>

\* lines 348-356: the attempt raises, before a body arrived or while parsing
\* it; the message is recorded and the loop sleeps unless this was the last
\* attempt
GetAlbumTracksAttemptFail ==
    /\ gat.pc = "attempting"
    /\ \E x \in TransportErrors \cup {r \in ResponseNames : ~ParseAlbum(gat.album, Response(r)).ok} :
        LET e == IF x \in TransportErrors THEN x ELSE "format"
            g1 == [gat EXCEPT !.errors = Append(@, AttemptMessage(gat.attempt, e)),
                              !.history = Append(@, e),
                              !.responses = Append(@, IF x \in TransportErrors THEN "none" ELSE x)]
        IN  gat' = IF ShouldSleep(gat.attempt)
                   THEN [g1 EXCEPT !.pc = "sleeping", !.slept = Append(@, Backoff(gat.attempt))]
                   ELSE GatLoopNext(g1)
    /\ UNCHANGED <<clockVars, tmVars, fbt, dbVars, pipeVars, utmVars, credWrites, histVars, rateVars, authVars>>

\* asyncio.sleep(backoff_time) returns
GetAlbumTracksWake ==
    /\ gat.pc = "sleeping"
    /\ gat' = GatLoopNext(gat)
    /\ UNCHANGED <<clockVars, tmVars, fbt, dbVars, pipeVars, utmVars, credWrites, histVars, rateVars, authVars>>

\* the caller takes the outcome; the service can be called again
GetAlbumTracksDone ==
    /\ gat.pc \in {"returned", "raised"}
    /\ gat' = GatIdle
    /\ UNCHANGED <<clockVars, tmVars, fbt, dbVars, pipeVars, utmVars, credWrites, histVars, rateVars, authVars>>

GatNext ==
    \/ GetAlbumTracksCall
    \/ GetAlbumTracksAttemptOk
    \/ GetAlbumTracksAttemptFail
    \/ GetAlbumTracksWake
    \/ GetAlbumTracksDone

\* TokenManager.max_retries
token_max_retries == 3

\* self.fallback_album_ids
fallback_album_ids ==
    <<"0HFmXICO7WgVoqLAXc7Rhw", "4aawyAB9vmqN3uQ7FjRGTy", "5CnpZV3q5BcESefcB3WJmz",
      "6FJxoadUE4JNVwWHghBwnb", "2ITZzNNN4Zm8jVoPJaCF1P">>

\* what can go wrong in one attempt of _fetch_bearer_token: the request failed,
\* or no session data / no access token was found in the page
BearerErrors == {"http", "nosession"}

\* f"Attempt {attempt+1} with album {album_id}: {str(e)}"
BearerMessage(attempt, album_id, e) == <<"Attempt", attempt + 1, album_id, e>>

FbtIdle ==
    [pc |-> "idle", seed |-> 1, attempt |-> 0, errors |-> <<>>, history |-> <<>>,
     sleeps |-> 0, result |-> <<"none", 0, 0>>, detail |-> <<>>]

\* the loops giving up after the first seed instead of falling back
FbtLoopNext_NoFallback(f) ==
    IF f.attempt + 1 < token_max_retries
    THEN [f EXCEPT !.pc = "attempting", !.attempt = f.attempt + 1]
    ELSE [f EXCEPT !.pc = "raised", !.detail = f.errors]

\* for album_id in self.fallback_album_ids: for attempt in range(self.token_max_retries):
\* the next iteration of the inner loop, else of the outer loop, else the raise
FbtLoopNext(f) ==
    IF f.attempt + 1 < token_max_retries
    THEN [f EXCEPT !.pc = "attempting", !.attempt = f.attempt + 1]
    ELSE IF f.seed < Len(fallback_album_ids)
         THEN [f EXCEPT !.pc = "attempting", !.seed = f.seed + 1, !.attempt = 0]
         ELSE [f EXCEPT !.pc = "raised", !.detail = f.errors]

FetchBearerTokenCall ==
    /\ fbt.pc = "idle"
    /\ fbt' = [FbtIdle EXCEPT !.pc = "attempting"]
    /\ UNCHANGED <<clockVars, tmVars, gat, dbVars, pipeVars, utmVars, credWrites, histVars, rateVars, authVars>>

\* lines 63-107: the page yields an access token, which is returned
FetchBearerTokenAttemptOk ==
    /\ fbt.pc = "attempting"
    /\ fbt' = [fbt EXCEPT !.pc = "returned",
                          !.history = Append(@, <<fbt.seed, fbt.attempt, "ok">>),
                          !.result = <<"bearer", fbt.seed, fbt.attempt + 1>>]
    /\ UNCHANGED <<clockVars, tmVars, gat, dbVars, pipeVars, utmVars, credWrites, histVars, rateVars, authVars>>

\* lines 109-117: the attempt raises
FetchBearerTokenAttemptFail ==
    /\ fbt.pc = "attempting"
    /\ \E e \in BearerErrors :
        LET f1 == [fbt EXCEPT
                     !.errors = Append(@, BearerMessage(fbt.attempt, fallback_album_ids[fbt.seed], e)),
                     !.history = Append(@, <<fbt.seed, fbt.attempt, e>>)]
        IN  fbt' = IF fbt.attempt < token_max_retries - 1
                   THEN [f1 EXCEPT !.pc = "sleeping", !.sleeps = @ + 1]
                   ELSE FbtLoopNext(f1)
    /\ UNCHANGED <<clockVars, tmVars, gat, dbVars, pipeVars, utmVars, credWrites, histVars, rateVars, authVars>>

FetchBearerTokenWake ==
    /\ fbt.pc = "sleeping"
    /\ fbt' = FbtLoopNext(fbt)
    /\ UNCHANGED <<clockVars, tmVars, gat, dbVars, pipeVars, utmVars, credWrites, histVars, rateVars, authVars>>

FbtNext ==
    \/ FetchBearerTokenCall
    \/ FetchBearerTokenAttemptOk
    \/ FetchBearerTokenAttemptFail
    \/ FetchBearerTokenWake

RetryInit ==
    /\ gat = GatIdle
    /\ fbt = FbtIdle

(***************************************************************************)
(* services/cockroach.py: save_complete_album and its three statements      *)
(***************************************************************************)
Conns == 1..NumConns

\* no task result yet
NoResult == [status |-> "none"]

TrackIds == {"T1", "T2"}

\* the arguments of one call: album_data, tracks_data, stream_data, built
\* from a list l of (track_id, play count); v is the revision of the names
\* sent for the album and its tracks
Args(a, v, l) ==
    [album_data |-> [album_id |-> a, artist_id |-> "artist", album_name |-> <<"album", v>>,
                     cover_art |-> "", release_date |-> "date", artist_name |-> "name"],
     tracks_data |-> [i \in 1..Len(l) |-> [track_id |-> l[i][1], name |-> <<"track", v>>]],
     stream_data |-> [i \in 1..Len(l) |-> [track_id |-> l[i][1], play_count |-> l[i][2]]]]

\* the calls made: an album with one track, the same album renamed with the
\* sample listed twice, another album sharing a track, an album without tracks
SaveArgs ==
    { Args("A1", 1, << <<"T1", 10>> >>),
      Args("A1", 2, << <<"T1", 10>>, <<"T1", 10>> >>),
      Args("A2", 1, << <<"T1", 20>>, <<"T2", 10>> >>),
      Args("A2", 2, <<>>) }

NoArgs ==
    [album_data |-> [album_id |-> "none", artist_id |-> "artist", album_name |-> <<"album", 0>>,
                     cover_art |-> "", release_date |-> "date", artist_name |-> "name"],
     tracks_data |-> <<>>, stream_data |-> <<>>]

EmptyDb == [albums |-> <<>>, tracks |-> <<>>, streams |-> <<>>]

\* INSERT INTO albums ... without the ON CONFLICT clause
UpsertAlbum_PlainInsert(albums, row) == Append(albums, row)

\* save_album: INSERT INTO albums ... ON CONFLICT (album_id) DO UPDATE SET ...
UpsertAlbum(albums, row) ==
    IF \E i \in 1..Len(albums) : albums[i].album_id = row.album_id
    THEN [i \in 1..Len(albums) |->
            IF albums[i].album_id = row.album_id THEN row ELSE albums[i]]
    ELSE Append(albums, row)

\* batch_save_tracks: INSERT INTO tracks ... ON CONFLICT (track_id) DO UPDATE SET ...
UpsertTrack(tracks, row) ==
    IF \E i \in 1..Len(tracks) : tracks[i].track_id = row.track_id
    THEN [i \in 1..Len(tracks) |->
            IF tracks[i].track_id = row.track_id THEN row ELSE tracks[i]]
    ELSE Append(tracks, row)

StreamKey(row) == <<row.track_id, row.play_count, row.album_id>>

\* INSERT INTO streams ... without the ON CONFLICT clause
InsertStream_PlainInsert(streams, row) == Append(streams, row)

\* batch_save_stream_counts: INSERT INTO streams (track_id, play_count, album_id)
\* ... ON CONFLICT (track_id, play_count, album_id) DO NOTHING
InsertStream(streams, row) ==
    IF \E i \in 1..Len(streams) : StreamKey(streams[i]) = StreamKey(row)
    THEN streams
    ELSE Append(streams, row)

\* one row-level statement applied to the tables
ApplyOp(d, op) ==
    IF op.table = "albums" THEN [d EXCEPT !.albums = UpsertAlbum(@, op.row)]
    ELSE IF op.table = "tracks" THEN [d EXCEPT !.tracks = UpsertTrack(@, op.row)]
    ELSE [d EXCEPT !.streams = InsertStream(@, op.row)]

RECURSIVE ApplyOps(_, _)
ApplyOps(d, ops) ==
    IF ops = <<>> THEN d ELSE ApplyOps(ApplyOp(d, Head(ops)), Tail(ops))

\* leaving "async with conn.transaction()" normally: the statements of the
\* transaction take effect together
CommitTransaction(d, ops) == ApplyOps(d, ops)

\* statements that were not wrapped in a transaction: they stay applied
RollbackTransaction_AutoCommit(d, ops) == ApplyOps(d, ops)

\* leaving "async with conn.transaction()" with an exception: nothing of the
\* transaction takes effect
RollbackTransaction(d, ops) == d

\* an upload unit that lets the exception of save_complete_album leave the task
UploadResult_NoCatch(args, outcome) ==
    IF outcome = "raised"
    THEN [album_id |-> args.album_data.album_id, status |-> "raised"]
    ELSE [album_id |-> args.album_data.album_id, status |-> "uploaded",
          tracks_count |-> Len(args.tracks_data)]

\* _upload_album_metrics_async lines 207-221: what the upload unit returns
\* when save_complete_album returned, and when it raised
UploadResult(args, outcome) ==
    IF outcome = "raised"
    THEN [album_id |-> args.album_data.album_id, status |-> "error"]
    ELSE [album_id |-> args.album_data.album_id, status |-> "uploaded",
          tracks_count |-> Len(args.tracks_data)]

\* outcome is how save_complete_album ended, unit what the upload unit that
\* called it returned
IdleTxn ==
    [pc |-> "idle", args |-> NoArgs, ops |-> <<>>, snap |-> EmptyDb, alone |-> TRUE,
     tracks_count |-> 0, streams_count |-> 0, inserted |-> 0,
     outcome |-> "none", unit |-> NoResult]

\* save_complete_album lines 219-220: a connection is opened and the
\* transaction begins
SaveCompleteAlbumBegin(t) ==
    /\ txn[t].pc \in {"idle", "committed", "failed"}
    /\ saves < MaxSaves
    /\ saves' = saves + 1
    /\ \E a \in SaveArgs :
         txn' = [txn EXCEPT ![t] = [IdleTxn EXCEPT !.pc = "album", !.args = a, !.snap = db]]
    /\ UNCHANGED <<db, lastSaved, lastRepeat, clockVars, tmVars, retryVars, pipeVars, utmVars, credWrites, histVars, rateVars, authVars>>

\* lines 222-230: save_album
SaveAlbumStep(t) ==
    /\ txn[t].pc = "album"
    /\ LET a == txn[t].args.album_data
           row == [album_id |-> a.album_id, artist_id |-> a.artist_id, name |-> a.album_name,
                   cover_art |-> a.cover_art, release_date |-> a.release_date,
                   artist_name |-> a.artist_name]
       IN  txn' = [txn EXCEPT ![t].pc = "tracks",
                              ![t].ops = Append(@, [table |-> "albums", row |-> row])]
    /\ UNCHANGED <<db, saves, lastSaved, lastRepeat, clockVars, tmVars, retryVars, pipeVars, utmVars, credWrites, histVars, rateVars, authVars>>

\* lines 232-244: batch_save_tracks over the prepared track batch
BatchSaveTracksStep(t) ==
    /\ txn[t].pc = "tracks"
    /\ LET a == txn[t].args
           rows == [i \in 1..Len(a.tracks_data) |->
                      [table |-> "tracks",
                       row |-> [track_id |-> a.tracks_data[i].track_id,
                                name |-> a.tracks_data[i].name,
                                artist_id |-> a.album_data.artist_id,
                                album_id |-> a.album_data.album_id]]]
       IN  txn' = [txn EXCEPT ![t].pc = "streams",
                              ![t].ops = @ \o rows,
                              ![t].tracks_count = Len(rows)]
    /\ UNCHANGED <<db, saves, lastSaved, lastRepeat, clockVars, tmVars, retryVars, pipeVars, utmVars, credWrites, histVars, rateVars, authVars>>

\* lines 246-257: batch_save_stream_counts over the prepared stream batch; the
\* timestamp column takes the time of the insert
BatchSaveStreamCountsStep(t) ==
    /\ txn[t].pc = "streams"
    /\ LET a == txn[t].args
           rows == [i \in 1..Len(a.stream_data) |->
                      [table |-> "streams",
                       row |-> [track_id |-> a.stream_data[i].track_id,
                                play_count |-> a.stream_data[i].play_count,
                                album_id |-> a.album_data.album_id,
                                timestamp |-> now]]]
       IN  txn' = [txn EXCEPT ![t].pc = "commit",
                              ![t].ops = @ \o rows,
                              ![t].streams_count = Len(rows)]
    /\ UNCHANGED <<db, saves, lastSaved, lastRepeat, clockVars, tmVars, retryVars, pipeVars, utmVars, credWrites, histVars, rateVars, authVars>>

\* lines 259-264: the transaction block is left with the return statement,
\* and the upload unit that called returns its "uploaded" result
SaveCompleteAlbumCommit(t) ==
    /\ txn[t].pc = "commit"
    /\ db' = CommitTransaction(db, txn[t].ops)
    /\ txn' = [u \in Conns |->
                 IF u = t
                 THEN [txn[t] EXCEPT !.pc = "committed",
                                     !.inserted = Len(db'.streams) - Len(db.streams),
                                     !.outcome = "returned",
                                     !.unit = UploadResult(txn[t].args, "returned")]
                 ELSE [txn[u] EXCEPT !.alone = FALSE]]
    /\ lastSaved' = txn[t].args
    /\ lastRepeat' = (txn[t].args = lastSaved)
    /\ UNCHANGED <<saves, clockVars, tmVars, retryVars, pipeVars, utmVars, credWrites, histVars, rateVars, authVars>>

\* a statement (or the commit) raises: the exception leaves the transaction
\* block, which rolls back, and then leaves save_complete_album (it has no
\* try/except); the upload unit that called it catches the exception
SaveCompleteAlbumFail(t) ==
    /\ txn[t].pc \in {"album", "tracks", "streams", "commit"}
    /\ db' = RollbackTransaction(db, txn[t].ops)
    /\ txn' = [txn EXCEPT ![t].pc = "failed",
                          ![t].outcome = "raised",
                          ![t].unit = UploadResult(txn[t].args, "raised")]
    /\ UNCHANGED <<saves, lastSaved, lastRepeat, clockVars, tmVars, retryVars, pipeVars, utmVars, credWrites, histVars, rateVars, authVars>>

\* the next poll happens on another day
DbTick ==
    /\ ticks < MaxDays
    /\ ticks' = ticks + 1
    /\ now' = now + SecondsPerDay
    /\ UNCHANGED <<tmVars, retryVars, dbVars, pipeVars, utmVars, credWrites, histVars, rateVars, authVars>>

DbInit ==
    /\ db = EmptyDb
    /\ txn = [t \in Conns |-> IdleTxn]
    /\ saves = 0
    /\ lastSaved = NoArgs
    /\ lastRepeat = FALSE

DbNext ==
    \/ DbTick
    \/ \E t \in Conns : SaveCompleteAlbumBegin(t)
    \/ \E t \in Conns : SaveAlbumStep(t)
    \/ \E t \in Conns : BatchSaveTracksStep(t)
    \/ \E t \in Conns : BatchSaveStreamCountsStep(t)
    \/ \E t \in Conns : SaveCompleteAlbumCommit(t)
    \/ \E t \in Conns : SaveCompleteAlbumFail(t)

(***************************************************************************)
(* tasks.py and celery_app.py: the page cursor and the task chain          *)
(*                                                                         *)
(* celery_app.py sets worker_concurrency = os.cpu_count(): the worker pool *)
(* is a set of processes. tasks.py is imported by each of them, so each    *)
(* holds its own AlbumTracker singleton, and each runs one task at a time  *)
(* (asyncio.run per task, worker_prefetch_multiplier = 1).                 *)
(***************************************************************************)
Workers == 1..NumWorkers

Min(a, b) == IF a < b THEN a ELSE b

\* get_all_albums: SELECT distinct album_id FROM tracks ORDER BY album_id DESC
\* LIMIT $1 OFFSET $2, each row as a dict
GetAllAlbums(cat, limit, offset) ==
    [i \in 1..(Min(offset + limit, Len(cat)) - Min(offset, Len(cat))) |->
        [album_id |-> cat[Min(offset, Len(cat)) + i]]]

\* attribute access on the album message: it is a dict (the rows are built
\* with dict(r) and the message is JSON), so its keys are not attributes
HasAttribute(album, attr) == FALSE

\* a worker process between two tasks; ret is what its last fetch_albums_batch
\* returned
IdleWorker ==
    [task |-> "none", offset |-> 0, limit |-> 0, album |-> [album_id |-> 0],
     albums |-> <<>>, sent |-> 0, ret |-> NoResult]

\* a reset() that leaves the cursor where it is
AlbumTrackerReset_NoReset(offset) == offset

\* AlbumTracker.reset: self.current_offset = 0
AlbumTrackerReset(offset) == 0

\* a chain message sent along with every album of the page
NextSend_ChainPerAlbum(albums, i) ==
    [task |-> "fetch_albums_batch", album |-> [album_id |-> 0]]

\* the chain message sent before the harvest messages
NextSend_ChainFirst(albums, i) ==
    IF i = 1
    THEN [task |-> "fetch_albums_batch", album |-> [album_id |-> 0]]
    ELSE [task |-> "fetch_album_metrics", album |-> albums[i - 1]]

\* lines 91-96: the i-th message the task sends for a non-empty page, one
\* fetch_album_metrics.delay(album) per album and then fetch_albums_batch.delay()
NextSend(albums, i) ==
    IF i <= Len(albums)
    THEN [task |-> "fetch_album_metrics", album |-> albums[i]]
    ELSE [task |-> "fetch_albums_batch", album |-> [album_id |-> 0]]

\* beat_schedule "update-albums-daily": one fetch_albums_batch message
BeatTrigger ==
    /\ triggers < MaxTriggers
    /\ triggers' = triggers + 1
    /\ albumsQ' = albumsQ + 1
    /\ dispatches' = 0
    /\ UNCHANGED <<catalog, tracker_lock, writes, current_offset, metricsQ, uploadQ, worker, claimed, claims, results,
                   pageErrors, clockVars, tmVars, retryVars, dbVars, utmVars, credWrites, histVars, rateVars, authVars>>

\* fetch_albums_batch line 75, AlbumTracker.get_next_batch: a worker process
\* takes the message and claims the page at its cursor, advancing the cursor
\* inside "async with self.lock" (the lock is free, nothing else runs in the
\* process, so the block is entered and left without suspending)
FetchAlbumsBatchClaim(w) ==
    /\ worker[w].task = "none"
    /\ albumsQ > 0
    /\ albumsQ' = albumsQ - 1
    /\ worker' = [worker EXCEPT ![w] = [IdleWorker EXCEPT !.task = "batch",
                                                          !.offset = current_offset[w],
                                                          !.limit = batch_size]]
    /\ ~tracker_lock[w]
    /\ LET held == [tracker_lock EXCEPT ![w] = TRUE]
       IN  /\ current_offset' = [current_offset EXCEPT ![w] = @ + batch_size]
           /\ writes' = writes \cup {[method |-> "get_next_batch", locked |-> held[w]]}
           /\ tracker_lock' = [held EXCEPT ![w] = FALSE]
    /\ claimed' = claimed \cup {current_offset[w]}
    /\ claims' = claims + 1
    /\ dispatches' = dispatches + 1
    /\ UNCHANGED <<catalog, metricsQ, uploadQ, triggers, results, pageErrors,
                   clockVars, tmVars, retryVars, dbVars, utmVars, credWrites, histVars, rateVars, authVars>>

\* fetch_albums_batch lines 78-88: the page arrives; an empty page resets the
\* cursor of this process, returns "complete" and ends the chain; a non-empty
\* page is kept for the sends that follow
FetchAlbumsBatchPage(w) ==
    /\ worker[w].task = "batch"
    /\ LET albums == GetAllAlbums(catalog, worker[w].limit, worker[w].offset)
       IN  IF albums = <<>>
           THEN /\ current_offset' = [current_offset EXCEPT ![w] = AlbumTrackerReset(@)]
                /\ writes' = writes \cup {[method |-> "reset", locked |-> tracker_lock[w]]}
                /\ claimed' = {}
                /\ claims' = 0
                /\ worker' = [worker EXCEPT ![w] = [IdleWorker EXCEPT !.ret = [status |-> "complete"]]]
           ELSE /\ worker' = [worker EXCEPT ![w] = [@ EXCEPT !.task = "sending", !.albums = albums,
                                                             !.sent = 0]]
                /\ UNCHANGED <<current_offset, claimed, claims, writes>>
    /\ UNCHANGED <<catalog, tracker_lock, albumsQ, metricsQ, uploadQ, dispatches, triggers, results, pageErrors,
                   clockVars, tmVars, retryVars, dbVars, utmVars, credWrites, histVars, rateVars, authVars>>

\* fetch_albums_batch lines 90-102: the next .delay() call publishes its
\* message; after the last one the task returns its "processing" result
FetchAlbumsBatchSend(w) ==
    /\ worker[w].task = "sending"
    /\ LET albums == worker[w].albums
           i == worker[w].sent + 1
           msg == NextSend(albums, i)
       IN  /\ IF msg.task = "fetch_album_metrics"
              THEN /\ metricsQ' = Append(metricsQ, msg.album)
                   /\ albumsQ' = albumsQ
              ELSE /\ albumsQ' = albumsQ + 1
                   /\ metricsQ' = metricsQ
           /\ worker' = [worker EXCEPT ![w] =
                           IF i = Len(albums) + 1
                           THEN [IdleWorker EXCEPT !.ret =
                                   [status |-> "processing",
                                    batch |-> [offset |-> worker[w].offset, limit |-> worker[w].limit],
                                    albums_count |-> Len(albums)]]
                           ELSE [@ EXCEPT !.sent = i]]
    /\ UNCHANGED <<catalog, tracker_lock, writes, current_offset, uploadQ, claimed, claims, dispatches, triggers, results,
                   pageErrors, clockVars, tmVars, retryVars, dbVars, utmVars, credWrites, histVars, rateVars, authVars>>

\* fetch_albums_batch lines 79-82: the catalog query raises; the task fails
\* with the cursor already advanced and nothing sent
FetchAlbumsBatchError(w) ==
    /\ worker[w].task = "batch"
    /\ worker' = [worker EXCEPT ![w] = IdleWorker]
    /\ pageErrors' = pageErrors + 1
    /\ UNCHANGED <<catalog, tracker_lock, writes, current_offset, albumsQ, metricsQ, uploadQ, claimed, claims, dispatches,
                   triggers, results, clockVars, tmVars, retryVars, dbVars, utmVars, credWrites, histVars, rateVars, authVars>>

\* fetch_album_metrics lines 105-113: a worker process takes a harvest message
FetchAlbumMetricsStart(w) ==
    /\ worker[w].task = "none"
    /\ metricsQ # <<>>
    /\ metricsQ' = Tail(metricsQ)
    /\ worker' = [worker EXCEPT ![w] = [IdleWorker EXCEPT !.task = "metrics",
                                                          !.album = Head(metricsQ)]]
    /\ UNCHANGED <<catalog, tracker_lock, writes, current_offset, albumsQ, uploadQ, claimed, claims, dispatches, triggers,
                   results, pageErrors, clockVars, tmVars, retryVars, dbVars, utmVars, credWrites, histVars, rateVars, authVars>>

\* the AlbumResponse get_album_tracks returns for an album: its tracks with
\* their play counts
AlbumTracks(album_id) ==
    << [track_id |-> <<"track", album_id, 1>>, name |-> "one", playcount |-> 10 * album_id],
       [track_id |-> <<"track", album_id, 2>>, name |-> "two", playcount |-> 10 * album_id + 1] >>

\* lines 120-141: the message built for upload_album_metrics
UploadMessage(album, album_data_tracks) ==
    [album_id |-> album.album_id,
     tracks |-> [i \in 1..Len(album_data_tracks) |->
                   [track_id |-> album_data_tracks[i].track_id,
                    name |-> album_data_tracks[i].name,
                    playcount |-> album_data_tracks[i].playcount]]]

\* fetch_album_metrics lines 115-157: get_album_tracks returns the album or
\* raises after its retries; building the upload message reads album.artist_id
\* (line 123); every exception is turned into an "error" result record
FetchAlbumMetricsFinish(w) ==
    /\ worker[w].task = "metrics"
    /\ \E fetched \in {"returned", "raised"} :
        LET album == worker[w].album
            ok == fetched = "returned" /\ HasAttribute(album, "artist_id")
                                       /\ HasAttribute(album, "artist_name")
        IN  /\ uploadQ' = IF ok
                          THEN Append(uploadQ, UploadMessage(album, AlbumTracks(album.album_id)))
                          ELSE uploadQ
            /\ results' = results \cup
                  {[album_id |-> album.album_id, fetched |-> fetched,
                    status |-> IF ok THEN "success" ELSE "error"]}
    /\ worker' = [worker EXCEPT ![w] = IdleWorker]
    /\ UNCHANGED <<catalog, tracker_lock, writes, current_offset, albumsQ, metricsQ, claimed, claims, dispatches, triggers,
                   pageErrors, clockVars, tmVars, retryVars, dbVars, utmVars, credWrites, histVars, rateVars, authVars>>

PipeInit ==
    /\ catalog = <<>>
    /\ current_offset = [w \in Workers |-> 0]
    /\ albumsQ = 0
    /\ metricsQ = <<>>
    /\ uploadQ = <<>>
    /\ worker = [w \in Workers |-> IdleWorker]
    /\ claimed = {}
    /\ claims = 0
    /\ dispatches = 0
    /\ triggers = 0
    /\ results = {}
    /\ pageErrors = 0
    /\ tracker_lock = [w \in Workers |-> FALSE]
    /\ writes = {}

\* the pipeline starting over a catalog of K albums, K = 0..MaxAlbums, whose
\* ids are K, ..., 1 in the order of the catalog query
PipeInitCatalog ==
    /\ catalog \in {[i \in 1..k |-> k + 1 - i] : k \in 0..MaxAlbums}
    /\ current_offset = [w \in Workers |-> 0]
    /\ albumsQ = 0
    /\ metricsQ = <<>>
    /\ uploadQ = <<>>
    /\ worker = [w \in Workers |-> IdleWorker]
    /\ claimed = {}
    /\ claims = 0
    /\ dispatches = 0
    /\ triggers = 0
    /\ results = {}
    /\ pageErrors = 0
    /\ tracker_lock = [w \in Workers |-> FALSE]
    /\ writes = {}

\* the page chain alone: the beat trigger and the fetch_albums_batch tasks,
\* whose messages to fetch_album_metrics stay in the broker
ChainNext ==
    \/ BeatTrigger
    \/ \E w \in Workers : FetchAlbumsBatchClaim(w)
    \/ \E w \in Workers : FetchAlbumsBatchPage(w)
    \/ \E w \in Workers : FetchAlbumsBatchSend(w)
    \/ \E w \in Workers : FetchAlbumsBatchError(w)

PipeNext ==
    \/ BeatTrigger
    \/ \E w \in Workers : FetchAlbumsBatchClaim(w)
    \/ \E w \in Workers : FetchAlbumsBatchPage(w)
    \/ \E w \in Workers : FetchAlbumsBatchSend(w)
    \/ \E w \in Workers : FetchAlbumsBatchError(w)
    \/ \E w \in Workers : FetchAlbumMetricsStart(w)
    \/ \E w \in Workers : FetchAlbumMetricsFinish(w)

TMInit ==
    /\ now = 0
    /\ ticks = 0
    /\ tm = TokenManagerInit
    /\ cache = NoFile
    /\ lock = 0
    /\ call = [c \in Callers |-> IdleCall]
    /\ gen = 0
    /\ produced = <<>>
    /\ allConcurrent = TRUE
    /\ calls = 0
    /\ fetchStarted = 0
    /\ restarts = 0

\* TokenManager.__init__ in a new process: the fields start empty, the cache
\* file of the previous process is still on disk, calls in flight are gone
RestartProcess ==
    /\ restarts < MaxRestarts
    /\ restarts' = restarts + 1
    /\ tm' = TokenManagerInit
    /\ lock' = 0
    /\ call' = [c \in Callers |-> IdleCall]
    /\ allConcurrent' = FALSE
    /\ UNCHANGED <<cache, gen, produced, calls, fetchStarted, now, ticks, retryVars, dbVars, pipeVars, utmVars, credWrites, histVars, rateVars, authVars>>

(***************************************************************************)
(* services/unofficial_spotify.py: the TokenManager of the harvest         *)
(* pipeline. tasks.py builds it in SpotifyServiceSingleton, once per       *)
(* worker process; a process runs one harvest unit at a time, so units     *)
(* that run concurrently run in different processes, each with the manager *)
(* of its process. The class has no lock.                                  *)
(***************************************************************************)
UnofficialInit ==
    [client_token |-> NoToken, bearer_token |-> NoToken,
     bearer_expiry |-> 0, token_expiry |-> 0, token_refresh |-> 0]

\* data["granted_token"] of the client-token response
GrantedTokens == {[expires_after_seconds |-> 3600, refresh_after_seconds |-> 3300]}

HeaderNames == {"accept", "authorization", "client-token", "app-platform", "spotify-app-version"}

\* the two credentials put in each other's slot
GetHeaders_Swapped(pair) ==
    [h \in HeaderNames |->
        CASE h = "accept" -> <<"application/json">>
          [] h = "authorization" -> <<"Bearer ", pair[1]>>
          [] h = "client-token" -> pair[2]
          [] h = "app-platform" -> <<"WebPlayer">>
          [] OTHER -> <<"1.2.59.53.gb992eb8d">>]

\* _get_headers lines 222-229 for the pair (client_token, bearer_token) that
\* get_tokens returned
GetHeaders(pair) ==
    [h \in HeaderNames |->
        CASE h = "accept" -> <<"application/json">>
          [] h = "authorization" -> <<"Bearer ", pair[2]>>
          [] h = "client-token" -> pair[1]
          [] h = "app-platform" -> <<"WebPlayer">>
          [] OTHER -> <<"1.2.59.53.gb992eb8d">>]

NoHeaders == [h \in HeaderNames |-> <<>>]

\* held: the manager's fields as they were when the call began
IdleUCall ==
    [pc |-> "idle", current_time |-> 0, result |-> NoPair, headers |-> NoHeaders,
     held |-> UnofficialInit]

\* line 193
UClientTokenValid(m, current_time) ==
    Truthy(m.client_token) /\ current_time < m.token_refresh

\* lines 198-202: the bearer token is fetched when it is absent or expired
UBearerFetchNeeded(m, current_time) ==
    LET bearer_token_valid == Truthy(m.bearer_token) /\ current_time * 1000 < m.bearer_expiry
        near_expiry == Truthy(m.bearer_token)
                       /\ current_time * 1000 + SafetyMarginMs >= m.bearer_expiry
    IN  ~bearer_token_valid /\ (~Truthy(m.bearer_token) \/ near_expiry)

\* lines 197-205 for the call of process w with manager m: the bearer check
\* and either the return or the start of _fetch_bearer_token
UBearerStep(w, m) ==
    IF UBearerFetchNeeded(m, ucall[w].current_time)
    THEN /\ ucall' = [ucall EXCEPT ![w].pc = "bearer_fetch"]
         /\ bearerFetches' = bearerFetches + 1
    ELSE /\ ucall' = [ucall EXCEPT ![w].pc = "done",
                                   ![w].result = <<m.client_token, m.bearer_token>>,
                                   ![w].headers = GetHeaders(<<m.client_token, m.bearer_token>>)]
         /\ bearerFetches' = bearerFetches

\* get_tokens lines 190-205 up to the first await: a harvest unit in process w
\* asks for the tokens
UnofficialGetTokens(w) ==
    /\ ucall[w].pc \in {"idle", "done", "raised"}
    /\ ucalls < MaxCalls
    /\ ucalls' = ucalls + 1
    /\ uAllConcurrent' = (uAllConcurrent /\ \A v \in Workers : ucall[v].pc \notin {"done", "raised"})
    /\ IF ~UClientTokenValid(utm[w], now)
       THEN /\ ucall' = [ucall EXCEPT ![w] = [IdleUCall EXCEPT !.pc = "client_fetch",
                                                              !.current_time = now, !.held = utm[w]]]
            /\ clientFetches' = clientFetches + 1
            /\ bearerFetches' = bearerFetches
       ELSE /\ clientFetches' = clientFetches
            /\ IF UBearerFetchNeeded(utm[w], now)
               THEN /\ ucall' = [ucall EXCEPT ![w] = [IdleUCall EXCEPT !.pc = "bearer_fetch",
                                                                      !.current_time = now, !.held = utm[w]]]
                    /\ bearerFetches' = bearerFetches + 1
               ELSE /\ ucall' = [ucall EXCEPT ![w] =
                                   [IdleUCall EXCEPT !.pc = "done", !.current_time = now, !.held = utm[w],
                                      !.result = <<utm[w].client_token, utm[w].bearer_token>>,
                                      !.headers = GetHeaders(<<utm[w].client_token, utm[w].bearer_token>>)]]
                    /\ bearerFetches' = bearerFetches
    /\ UNCHANGED <<utm, credWrites, clockVars, tmVars, retryVars, dbVars, pipeVars, histVars, rateVars, authVars>>

\* _fetch_client_token lines 155-165: the token is granted and stored; then
\* get_tokens goes on with the bearer check
UnofficialFetchClientTokenOk(w) ==
    /\ ucall[w].pc = "client_fetch"
    /\ \E granted \in GrantedTokens :
        LET m1 == [utm[w] EXCEPT
                     !.client_token = <<"client", w, clientFetches>>,
                     !.token_expiry = now + granted.expires_after_seconds,
                     !.token_refresh = now + granted.refresh_after_seconds]
        IN  /\ utm' = [utm EXCEPT ![w] = m1]
            /\ UBearerStep(w, m1)
    /\ credWrites' = credWrites \cup {[manager |-> "unofficial_spotify",
                                       method |-> "_fetch_client_token", locked |-> FALSE]}
    /\ UNCHANGED <<ucalls, clientFetches, uAllConcurrent, clockVars, tmVars, retryVars, dbVars, pipeVars, histVars, rateVars, authVars>>

\* _fetch_client_token lines 176-181: every attempt failed
UnofficialFetchClientTokenFail(w) ==
    /\ ucall[w].pc = "client_fetch"
    /\ ucall' = [ucall EXCEPT ![w].pc = "raised"]
    /\ UNCHANGED <<utm, ucalls, clientFetches, bearerFetches, uAllConcurrent, credWrites,
                   clockVars, tmVars, retryVars, dbVars, pipeVars, histVars, rateVars, authVars>>

\* line 203: _fetch_bearer_token returned (token, expiry); both are stored
\* and the pair is returned
UnofficialFetchBearerTokenOk(w) ==
    /\ ucall[w].pc = "bearer_fetch"
    /\ LET m1 == [utm[w] EXCEPT !.bearer_token = <<"bearer", w, bearerFetches>>,
                                !.bearer_expiry = now * 1000 + TokenLifetimeMs]
       IN  /\ utm' = [utm EXCEPT ![w] = m1]
           /\ ucall' = [ucall EXCEPT ![w].pc = "done",
                                     ![w].result = <<m1.client_token, m1.bearer_token>>,
                                     ![w].headers = GetHeaders(<<m1.client_token, m1.bearer_token>>)]
    /\ credWrites' = credWrites \cup {[manager |-> "unofficial_spotify",
                                       method |-> "get_tokens", locked |-> FALSE]}
    /\ UNCHANGED <<ucalls, clientFetches, bearerFetches, uAllConcurrent,
                   clockVars, tmVars, retryVars, dbVars, pipeVars, histVars, rateVars, authVars>>

\* _fetch_bearer_token lines 119-124: every seed and attempt failed
UnofficialFetchBearerTokenFail(w) ==
    /\ ucall[w].pc = "bearer_fetch"
    /\ ucall' = [ucall EXCEPT ![w].pc = "raised"]
    /\ UNCHANGED <<utm, ucalls, clientFetches, bearerFetches, uAllConcurrent, credWrites,
                   clockVars, tmVars, retryVars, dbVars, pipeVars, histVars, rateVars, authVars>>

UtmTick == Tick /\ UNCHANGED <<tmVars, retryVars, dbVars, pipeVars, utmVars, credWrites, histVars, rateVars, authVars>>

UtmInit ==
    /\ utm = [w \in Workers |-> UnofficialInit]
    /\ ucall = [w \in Workers |-> IdleUCall]
    /\ ucalls = 0
    /\ clientFetches = 0
    /\ bearerFetches = 0
    /\ uAllConcurrent = TRUE
    /\ credWrites = {}

UtmNext ==
    \/ UtmTick
    \/ \E w \in Workers : UnofficialGetTokens(w)
    \/ \E w \in Workers : UnofficialFetchClientTokenOk(w)
    \/ \E w \in Workers : UnofficialFetchClientTokenFail(w)
    \/ \E w \in Workers : UnofficialFetchBearerTokenOk(w)
    \/ \E w \in Workers : UnofficialFetchBearerTokenFail(w)

(***************************************************************************)
(* db.py: save_stream_count and get_track_history on table streams.        *)
(***************************************************************************)
MaxSamples == 3

PlayCounts == {10, 20}

Limits == {0, 1, 2}

NoHistory ==
    [op |-> "none", track_id |-> "T1", limit |-> 0, status |-> "none", rows |-> <<>>]

\* dict(r) of a selected row: the columns under their aliases
HistoryRow(row) ==
    [track_id |-> row.track_id, playcount |-> row.play_count, timestamp |-> row.timestamp]

\* the query ordering by timestamp ASC
SelectHistory_Ascending(table, track_id, limit) ==
    LET matching == {i \in 1..Len(table) : table[i].track_id = track_id}
        n == Min(limit, Cardinality(matching))
        picks == {q \in [1..n -> matching] :
                    /\ \A i, j \in 1..n : i # j => q[i] # q[j]
                    /\ \A i, j \in 1..n : i < j => table[q[i]].timestamp <= table[q[j]].timestamp
                    /\ \A k \in matching \ {q[i] : i \in 1..n} :
                          \A i \in 1..n : table[q[i]].timestamp <= table[k].timestamp}
    IN  {[i \in 1..n |-> HistoryRow(table[q[i]])] : q \in picks}

\* lines 35-44: SELECT ... FROM streams WHERE track_id = $1 ORDER BY timestamp
\* DESC LIMIT $2: the results the database may give (rows of equal timestamp
\* come in either order)
SelectHistory(table, track_id, limit) ==
    LET matching == {i \in 1..Len(table) : table[i].track_id = track_id}
        n == Min(limit, Cardinality(matching))
        picks == {q \in [1..n -> matching] :
                    /\ \A i, j \in 1..n : i # j => q[i] # q[j]
                    /\ \A i, j \in 1..n : i < j => table[q[i]].timestamp >= table[q[j]].timestamp
                    /\ \A k \in matching \ {q[i] : i \in 1..n} :
                          \A i \in 1..n : table[q[i]].timestamp >= table[k].timestamp}
    IN  {[i \in 1..n |-> HistoryRow(table[q[i]])] : q \in picks}

\* save_stream_count lines 25-30: one row is inserted with datetime.now(),
\* which is the time of the last call or later
SaveStreamCount ==
    /\ Len(streams_table) < MaxSamples
    /\ \E track_id \in TrackIds, play_count \in PlayCounts, t \in {db_clock, db_clock + 1} :
        /\ streams_table' = Append(streams_table, [track_id |-> track_id, play_count |-> play_count,
                                        timestamp |-> t])
        /\ db_clock' = t
        /\ history' = [NoHistory EXCEPT !.op = "save_stream_count", !.track_id = track_id,
                                        !.status = "returned"]
    /\ UNCHANGED <<clockVars, tmVars, retryVars, dbVars, pipeVars, utmVars, credWrites, rateVars, authVars>>

\* save_stream_count: the connection or the INSERT raises; nothing is stored
SaveStreamCountFail ==
    /\ \E track_id \in TrackIds :
        history' = [NoHistory EXCEPT !.op = "save_stream_count", !.track_id = track_id,
                                     !.status = "raised"]
    /\ UNCHANGED <<streams_table, db_clock, clockVars, tmVars, retryVars, dbVars, pipeVars, utmVars,
                   credWrites, rateVars, authVars>>

\* get_track_history lines 32-45: the rows are returned as a list of dicts,
\* [] when there are none
GetTrackHistory ==
    /\ \E track_id \in TrackIds, limit \in Limits :
        \E rows \in SelectHistory(streams_table, track_id, limit) :
            history' = [op |-> "get_track_history", track_id |-> track_id, limit |-> limit,
                        status |-> "returned", rows |-> rows]
    /\ UNCHANGED <<streams_table, db_clock, clockVars, tmVars, retryVars, dbVars, pipeVars, utmVars,
                   credWrites, rateVars, authVars>>

\* get_track_history lines 46-48: the exception is printed and raised again
GetTrackHistoryFail ==
    /\ \E track_id \in TrackIds, limit \in Limits :
        history' = [op |-> "get_track_history", track_id |-> track_id, limit |-> limit,
                    status |-> "raised", rows |-> <<>>]
    /\ UNCHANGED <<streams_table, db_clock, clockVars, tmVars, retryVars, dbVars, pipeVars, utmVars,
                   credWrites, rateVars, authVars>>

HistInit ==
    /\ streams_table = <<>>
    /\ db_clock = 0
    /\ history = NoHistory

HistNext ==
    \/ SaveStreamCount
    \/ SaveStreamCountFail
    \/ GetTrackHistory
    \/ GetTrackHistoryFail

(***************************************************************************)
(* The rate limits the worker applies to task starts: each task name has   *)
(* a token bucket of capacity one, filled at the task's rate.              *)
(***************************************************************************)
MaxStarts == 3
MaxRateTicks == 4

\* granularity of the consumer's clock, in ms
RateStep == 100

TaskNames == {"tasks.fetch_albums_batch", "tasks.fetch_album_metrics"}

task_default_rate_limit == 300
fetch_album_metrics_rate_limit == 200

\* only the limit a task declares itself; 0 stands for no limit
RateLimit_OwnOnly(task) ==
    IF task = "tasks.fetch_album_metrics" THEN fetch_album_metrics_rate_limit ELSE 0

\* starts per minute allowed for a task: the rate_limit of its decorator,
\* else task_default_rate_limit
RateLimit(task) ==
    IF task = "tasks.fetch_album_metrics" THEN fetch_album_metrics_rate_limit
    ELSE task_default_rate_limit

\* ms for the bucket to refill after a start
MinInterval(task) == IF RateLimit(task) = 0 THEN 0 ELSE 60000 \div RateLimit(task)

CanConsume(task) ==
    bucket[task] = -1 \/ rate_clock - bucket[task] >= MinInterval(task)

\* the worker hands a ready task of this name to its pool
RateStart(task) ==
    /\ Len(rate_log) < MaxStarts
    /\ CanConsume(task)
    /\ bucket' = [bucket EXCEPT ![task] = rate_clock]
    /\ rate_log' = Append(rate_log, <<task, rate_clock>>)
    /\ UNCHANGED <<rate_clock, clockVars, tmVars, retryVars, dbVars, pipeVars, utmVars,
                   credWrites, histVars, authVars>>

RateTick ==
    /\ rate_clock < MaxRateTicks * RateStep
    /\ rate_clock' = rate_clock + RateStep
    /\ UNCHANGED <<bucket, rate_log, clockVars, tmVars, retryVars, dbVars, pipeVars, utmVars,
                   credWrites, histVars, authVars>>

RateInit ==
    /\ bucket = [task \in TaskNames |-> -1]
    /\ rate_clock = 0
    /\ rate_log = <<>>

RateNext ==
    \/ RateTick
    \/ \E task \in TaskNames : RateStart(task)

(***************************************************************************)
(* routes/dependencies.py: verify_api_key, the dependency of the protected *)
(* routes, for the requests of one client IP within one hour.              *)
(***************************************************************************)
MaxRequests == 12

\* "if request_count > 10" (line 91)
RequestsPerHour == 10

\* the key sent: settings.API_KEY, the active key stored for this IP, or a
\* key that is not stored for it
ApiKeys == {"admin", "regular", "unknown"}

Endpoints == {"/albums/1", "/streams/1", "/search/q"}

\* get_request_count counts "endpoint LIKE '/albums/%' OR endpoint LIKE '/streams/%'"
CountedRows(logs) == logs["/albums/1"] + logs["/streams/1"]

\* ApiKeyService.log_request: one row is inserted; an error is printed and
\* swallowed
LogRequest(logs, endpoint, ok) ==
    IF ok THEN [logs EXCEPT ![endpoint] = @ + 1] ELSE logs

\* ApiKeyService.validate_api_key (auth.py:193-238)
ValidateApiKey(api_key) == api_key \in {"admin", "regular"}

\* ApiKeyService.get_request_count (auth.py:257-279): 0 for the admin key and
\* when the query fails
GetRequestCount(logs, api_key, ok) ==
    IF api_key = "admin" \/ ~ok THEN 0
    ELSE CountedRows(logs)

\* line 94: "except Exception as rate_error" around the rate check;
\* HTTPException derives from Exception, so the clause catches the 429
\* raised at line 93
CatchesHTTPException == TRUE

\* lines 86-97: the rate check of a validated regular key
RateCheck(request_count) ==
    IF request_count > RequestsPerHour /\ ~CatchesHTTPException
    THEN "429"
    ELSE "passed"

NoVerdict == [api_key |-> "none", endpoint |-> "none", logged |-> 0, status |-> "none"]

\* verify_api_key lines 41-106 for one request
VerifyApiKey ==
    /\ request_logs["/albums/1"] + request_logs["/streams/1"] + request_logs["/search/q"] < MaxRequests
    /\ \E api_key \in ApiKeys, endpoint \in Endpoints, log_ok \in BOOLEAN, count_ok \in BOOLEAN :
        LET logs1 == LogRequest(request_logs, endpoint, log_ok)
            status == IF api_key = "admin" THEN "passed"
                      ELSE IF ~ValidateApiKey(api_key) THEN "403"
                      ELSE RateCheck(GetRequestCount(logs1, api_key, count_ok))
        IN  /\ request_logs' = logs1
            /\ verdict' = [api_key |-> api_key, endpoint |-> endpoint,
                           logged |-> CountedRows(logs1),
                           status |-> status]
    /\ UNCHANGED <<clockVars, tmVars, retryVars, dbVars, pipeVars, utmVars, credWrites,
                   histVars, rateVars>>

AuthInit ==
    /\ request_logs = [e \in Endpoints |-> 0]
    /\ verdict = NoVerdict

AuthNext == VerifyApiKey

Init == TMInit /\ RetryInit /\ DbInit /\ PipeInit /\ UtmInit /\ HistInit /\ RateInit /\ AuthInit

InitPipe == TMInit /\ RetryInit /\ DbInit /\ PipeInitCatalog /\ UtmInit /\ HistInit /\ RateInit /\ AuthInit

TMTick == Tick /\ UNCHANGED <<tmVars, retryVars, dbVars, pipeVars, utmVars, credWrites, histVars, rateVars, authVars>>

TMNext ==
    \/ TMTick
    \/ \E c \in Callers : CallGetTokens(c)
    \/ \E c \in Callers : GetTokensEnter(c)
    \/ \E c \in Callers : FetchTokensOk(c)
    \/ \E c \in Callers : FetchTokensFail(c)
    \/ RestartProcess

Next == TMNext \/ GatNext \/ FbtNext \/ DbNext \/ PipeNext \/ UtmNext \/ HistNext \/ RateNext \/ AuthNext

SpecTM == Init /\ [][TMNext]_vars

\* the event loop runs every coroutine that can run: asyncio.Lock wakes its
\* waiters in turn, and a browser session ends, with both tokens or, after
\* the 10 s wait of lines 121-135, without
TMFairness ==
    \A c \in Callers :
        /\ SF_vars(GetTokensEnter(c))
        /\ WF_vars(FetchTokensOk(c) \/ FetchTokensFail(c))

\* the callers of one manager while no time passes and the process lives
LockNext ==
    \/ \E c \in Callers : CallGetTokens(c)
    \/ \E c \in Callers : GetTokensEnter(c)
    \/ \E c \in Callers : FetchTokensOk(c)
    \/ \E c \in Callers : FetchTokensFail(c)

SpecLock == Init /\ [][LockNext]_vars /\ TMFairness

SpecGAT == Init /\ [][GatNext]_vars

SpecFBT == Init /\ [][FbtNext]_vars

SpecDB == Init /\ [][DbNext]_vars

SpecPipe == InitPipe /\ [][PipeNext]_vars

SpecUTM == Init /\ [][UtmNext]_vars

\* one harvest process building request headers: _get_headers awaits
\* get_tokens of the process's own manager
HeadersNext ==
    \/ UtmTick
    \/ UnofficialGetTokens(1)
    \/ UnofficialFetchClientTokenOk(1)
    \/ UnofficialFetchClientTokenFail(1)
    \/ UnofficialFetchBearerTokenOk(1)
    \/ UnofficialFetchBearerTokenFail(1)

SpecHeaders == Init /\ [][HeadersNext]_vars

SpecHistory == Init /\ [][HistNext]_vars

SpecRate == Init /\ [][RateNext]_vars

SpecAuth == Init /\ [][AuthNext]_vars

SpecChain == InitPipe /\ [][ChainNext]_vars

Spec == Init /\ [][Next]_vars

(***************************************************************************)
(* Claims about services/token_manager.py                                  *)
(***************************************************************************)
Evaluated(c) == call[c].pc \in {"fetching", "done", "raised"}

PairOf(g) == <<(<<"client", g>>), (<<"bearer", g>>)>>

HeldExpired(c) ==
    \/ call[c].evalNow >= call[c].evalTokExp - SafetyMargin
    \/ call[c].evalNow * 1000 >= call[c].evalBearExp - SafetyMarginMs

\* C5: a call that evaluates the held pair at now >= expires_at - 300 for
\* either credential reads the cache and, unless the cache gave a usable
\* pair, launches the browser; a call that evaluates at now < expires_at - 300
\* for both credentials neither reads the cache nor launches the browser.
C5_ValidityBoundary ==
    \A c \in Callers :
        Evaluated(c) =>
            /\ HeldExpired(c) => (call[c].readCache
                                   /\ (call[c].didFetch \/ call[c].evalUsable))
            /\ ~HeldExpired(c) => (~call[c].readCache /\ ~call[c].didFetch)

\* both sides of the boundary: one call evaluated exactly at expires_at - 300
\* and refreshed, another evaluated one second earlier and did not
C5_Witness ==
    \E c, d \in Callers :
        /\ Evaluated(c) /\ call[c].evalTokExp > 0
        /\ call[c].evalNow = call[c].evalTokExp - SafetyMargin
        /\ call[c].didFetch
        /\ call[d].pc = "done" /\ call[d].evalTokExp > 0
        /\ call[d].evalNow = call[d].evalTokExp - SafetyMargin - 1
        /\ ~call[d].readCache /\ ~call[d].didFetch

FreshManager(c) == Evaluated(c) /\ call[c].evalTokExp = 0

CachedPairUsable(c) ==
    call[c].evalCache.exists /\ call[c].evalNow < call[c].evalCache.expires_at - SafetyMargin

\* what a newly constructed manager does with the cache file on its first call
CacheDecidesFirstCall ==
    \A c \in Callers :
        FreshManager(c) =>
            IF CachedPairUsable(c)
            THEN /\ ~call[c].didFetch
                 /\ call[c].pc = "done"
                 /\ call[c].result = <<call[c].evalCache.client_token,
                                       call[c].evalCache.bearer_token>>
            ELSE call[c].didFetch

C15_CredentialWritesUnderLock ==
    \A x \in credWrites : x.locked

\* C20: harvest units that run concurrently and find no valid credentials
\* cause one _fetch_client_token and one _fetch_bearer_token between them,
\* never two fetches of the same token in flight, and all return the pair
\* those fetches produced.
C20_PipelineSingleFlight ==
    /\ Cardinality({w \in Workers : ucall[w].pc = "client_fetch"}) <= 1
    /\ Cardinality({w \in Workers : ucall[w].pc = "bearer_fetch"}) <= 1
    /\ (uAllConcurrent /\ ticks = 0) =>
          /\ clientFetches <= 1
          /\ bearerFetches <= 1
          /\ \A v, w \in Workers :
                (ucall[v].pc = "done" /\ ucall[w].pc = "done") => ucall[v].result = ucall[w].result

(***************************************************************************)
(* Claims about the retry loops of services/unofficial_spotify.py          *)
(***************************************************************************)
Failures(h) == Cardinality({i \in 1..Len(h) : h[i] # "ok"})

\* C8: get_album_tracks makes at most 3 attempts, makes none after a
\* successful one and returns that attempt's result; it raises only after 3
\* failed attempts, with the 3 messages in attempt order; it has slept once
\* after every failed attempt except the third.
C8_RetryContract ==
    LET n == Len(gat.history)
    IN  /\ n <= max_retries
        /\ \A i \in 1..(n - 1) : gat.history[i] # "ok"
        /\ gat.pc = "returned" =>
              /\ n >= 1 /\ gat.history[n] = "ok"
              /\ gat.result = <<gat.album, n>>
        /\ gat.pc = "raised" =>
              /\ n = max_retries
              /\ gat.history[n] # "ok"
              /\ gat.detail = [i \in 1..max_retries |-> <<"Attempt", i, gat.history[i]>>]
        /\ gat.pc = "attempting" => n = gat.attempt
        /\ gat.pc # "idle" =>
              gat.slept = [i \in 1..(IF Failures(gat.history) = max_retries
                                      THEN max_retries - 1
                                      ELSE Failures(gat.history)) |-> 2 ^ (i - 1)]

\* an item that has everything a Track needs
WellFormed(item) ==
    /\ item.track
    /\ item.uri # 0
    /\ item.name # ""
    /\ item.playcount[1] \in {"int", "absent"}
    /\ item.artists \in {"present", "absent"}

\* the body has the album-level sections apart from the track items
AlbumFieldsValid(data) ==
    data.albumUnion /\ data.artists = "present" /\ data.tracksV2

\* C22: the headers of a harvest request carry the pair get_tokens returned,
\* the bearer token after "Bearer " in authorization and the client token in
\* client-token, never the other way round, and the static fields
\* app-platform = "WebPlayer" and spotify-app-version.
C22_HeadersCarryPair ==
    \A w \in Workers :
        ucall[w].pc = "done" =>
            /\ ucall[w].headers["authorization"] = <<"Bearer ", ucall[w].result[2]>>
            /\ ucall[w].headers["client-token"] = ucall[w].result[1]
            /\ ucall[w].headers["authorization"][2][1] = "bearer"
            /\ ucall[w].headers["client-token"][1] = "client"
            /\ ucall[w].headers["app-platform"] = <<"WebPlayer">>
            /\ ucall[w].headers["spotify-app-version"] # <<>>

\* headers were built from a pair fetched earlier and from a pair fetched by
\* the call itself
C22_Witness ==
    \E w \in Workers :
        /\ ucall[w].pc = "done"
        /\ ucalls >= 2
        /\ bearerFetches >= 2
        /\ ucall[w].headers["client-token"] = utm[w].client_token

\* C25: get_tokens of the pipeline's manager fetches a new bearer token
\* exactly when it holds none or now >= bearer_expiry - 5 minutes: a call that
\* returns without a bearer fetch was made before that point, and a call that
\* starts a bearer fetch was made at or after it.
C25_PreemptiveBearerRefresh ==
    [][\A w \in Workers :
         LET t == ucall'[w].current_time * 1000
             m == utm'[w]
             inBuffer == ~Truthy(m.bearer_token) \/ t >= m.bearer_expiry - SafetyMarginMs
         IN  /\ (ucall[w].pc # "bearer_fetch" /\ ucall'[w].pc = "done") => ~inBuffer
             /\ (ucall[w].pc # "bearer_fetch" /\ ucall'[w].pc = "bearer_fetch") => inBuffer
      ]_vars

\* C23: once a sample of track t has been saved, get_track_history(t, limit)
\* with limit >= 1 returns a non-empty list of at most limit samples, all of
\* track t, newest first.
C23_HistoryAfterSave ==
    (/\ history.op = "get_track_history"
     /\ history.status = "returned"
     /\ history.limit >= 1
     /\ \E i \in 1..Len(streams_table) : streams_table[i].track_id = history.track_id)
      => /\ history.rows # <<>>
         /\ Len(history.rows) <= history.limit
         /\ \A i \in 1..Len(history.rows) : history.rows[i].track_id = history.track_id
         /\ \A i, j \in 1..Len(history.rows) :
               i < j => history.rows[i].timestamp >= history.rows[j].timestamp
         /\ \A i \in 1..Len(streams_table) :
               streams_table[i].track_id = history.track_id
                  => history.rows[1].timestamp >= streams_table[i].timestamp

\* three samples were saved at different times, two of them of the track
\* asked for, and the query with limit 2 gave these two, the later one first
C23_Witness ==
    /\ history.op = "get_track_history"
    /\ history.status = "returned"
    /\ history.limit = 2
    /\ Len(streams_table) = 3
    /\ Len(history.rows) = 2
    /\ history.rows[1].timestamp > history.rows[2].timestamp
    /\ \E i \in 1..3 : streams_table[i].track_id # history.track_id

\* the starts of one task name in the log are at least gap ms apart
StartsApart(task, gap) ==
    \A i, j \in 1..Len(rate_log) :
        (i < j /\ rate_log[i][1] = task /\ rate_log[j][1] = task)
           => rate_log[j][2] - rate_log[i][2] >= gap

\* C24: harvest units start at most 200 times a minute, that is at least
\* 300 ms apart, and the page-fetch unit is under no limit: it can start at
\* any time.
C24_PageFetchUnthrottled ==
    /\ StartsApart("tasks.fetch_album_metrics", 300)
    /\ CanConsume("tasks.fetch_albums_batch")

\* C24 amended: the worker lets harvest units start at most 200 times a
\* minute (300 ms apart) and page-fetch units at most 300 times a minute
\* (200 ms apart), the default limit.
C24_BothThrottled ==
    /\ StartsApart("tasks.fetch_album_metrics", 300)
    /\ StartsApart("tasks.fetch_albums_batch", 200)

\* a page-fetch unit started 200 ms after the one before, and a harvest unit
\* started in between
C24_Witness ==
    /\ Len(rate_log) = 3
    /\ rate_log[1] = <<"tasks.fetch_albums_batch", 0>>
    /\ rate_log[2][1] = "tasks.fetch_album_metrics"
    /\ rate_log[3] = <<"tasks.fetch_albums_batch", 200>>

\* C28: before the retry that follows failed attempt k the loop sleeps
\* min(cap, base * 2^k) plus jitter, a delay of at least min(cap, base) > 0;
\* in the bearer-token loop, as in the others, every attempt after the first
\* is therefore preceded by one sleep.
C28_DelayBeforeEveryRetry ==
    fbt.pc = "attempting" => fbt.sleeps = Len(fbt.history)

\* C29: whenever no page-fetch unit is pending or running, the cursor offset
\* is 0, so that the scheduler's next trigger starts a cycle at offset 0, also
\* after page fetches in which the catalog accessor raised.
C29_IdleCursorAtZero ==
    (albumsQ = 0 /\ \A w \in Workers : worker[w].task \notin {"batch", "sending"})
       => \A w \in Workers : current_offset[w] = 0

\* C30: get_tokens of services/token_manager.py raises only after
\* max_retries browser sessions have failed: when a call has raised, at least
\* max_retries sessions have been launched.
C30_RaisesAfterMaxRetries ==
    \A c \in Callers : call[c].pc = "raised" => fetchStarted >= tm_max_retries

\* C31: a save_complete_album of album A that commits leaves unchanged every
\* albums row of another album and every tracks row linked to another album.
C31_OtherAlbumsUntouched ==
    [][\A t \in Conns :
         (txn[t].pc = "commit" /\ txn'[t].pc = "committed") =>
            LET A == txn[t].args.album_data.album_id
            IN  /\ \A i \in 1..Len(db.albums) :
                      db.albums[i].album_id # A =>
                         (i <= Len(db'.albums) /\ db'.albums[i] = db.albums[i])
                /\ \A i \in 1..Len(db.tracks) :
                      db.tracks[i].album_id # A =>
                         (i <= Len(db'.tracks) /\ db'.tracks[i] = db.tracks[i])
      ]_vars

\* C32: a request with a valid regular key from an IP that has more than 10
\* logged requests to protected endpoints in the last hour is rejected with
\* HTTP 429 and does not reach the route handler.
C32_RateLimitRejects ==
    (verdict.api_key = "regular" /\ verdict.logged > RequestsPerHour)
       => verdict.status = "429"

\* the harvest messages enqueued so far for one album
HarvestUnitsFor(album) == Cardinality({i \in 1..Len(metricsQ) : metricsQ[i].album_id = album})

\* C33: in a cycle started by one trigger whose catalog query never fails, no
\* album gets a second harvest unit, and once the empty page has been
\* observed every album of the catalog has got exactly one.
C33_EachAlbumOnce ==
    (triggers = 1 /\ pageErrors = 0) =>
        /\ \A i \in 1..Len(catalog) : HarvestUnitsFor(catalog[i]) <= 1
        /\ (\E w \in Workers : worker[w].ret.status = "complete") =>
              \A i \in 1..Len(catalog) : HarvestUnitsFor(catalog[i]) = 1

\* the page-fetch units pending in the queue or running in a process
PageUnits ==
    albumsQ + Cardinality({w \in Workers : worker[w].task \in {"batch", "sending"}})

\* C37: page-fetch units pending or running never exceed the triggers whose
\* chain has not ended: only a trigger adds a unit, a running unit is replaced
\* by at most the one next-page unit it enqueues, and the count drops only
\* when a chain ends, with the empty page or with a failed catalog query.
C37_ChainsDoNotMultiply ==
    /\ [](PageUnits <= triggers)
    /\ [][/\ PageUnits' <= PageUnits + (triggers' - triggers)
          /\ PageUnits' < PageUnits =>
                \/ pageErrors' = pageErrors + 1
                \/ \E w \in Workers : /\ worker[w].task = "batch"
                                       /\ worker'[w].ret.status = "complete"
       ]_vars

\* a chain has gone through a page of two albums and its next-page unit is
\* the only page-fetch unit there is
C37_Witness ==
    /\ triggers = 1
    /\ dispatches >= 1
    /\ Len(metricsQ) >= 2
    /\ PageUnits = 1
    /\ albumsQ = 1

\* C34: a failed browser refresh releases the lock: the lock is held only by
\* a call whose browser session is in flight, never by a call that has
\* raised; at most one session is in flight; and every caller waiting on the
\* lock gets past it.
C34_LockReleasedOnFailure ==
    /\ [](/\ Cardinality({c \in Callers : call[c].pc = "fetching"}) <= 1
          /\ \A c \in Callers : (lock = c) <=> (call[c].pc = "fetching"))
    /\ \A c \in Callers : (call[c].pc = "waiting") ~> (call[c].pc # "waiting")

\* a call has raised after its browser session failed, and a caller that
\* came to the lock after it is running a session of its own
C34_Witness ==
    \E c, d \in Callers :
        /\ call[c].pc = "raised" /\ call[c].didFetch
        /\ call[d].pc = "fetching"
        /\ lock = d
        /\ fetchStarted = 2

C38_CacheWriteFailureSwallowed ==
    [][\A c \in Callers :
         (call[c].pc = "fetching" /\ gen' = gen + 1) =>
            /\ call'[c].pc = "done"
            /\ call'[c].result = PairOf(gen')
            /\ <<tm'.client_token, tm'.bearer_token>> = PairOf(gen')
            /\ tm'.token_expiry = produced'[gen']
            /\ ~call'[c].savedOK =>
                  /\ cache' = cache
                  /\ <<cache'.client_token, cache'.bearer_token>> # PairOf(gen')]_vars

\* a refresh succeeded but its write of the file failed; the process was
\* restarted while that pair was still valid, and the new manager, finding
\* no file, launched the browser again; its own write failed too and it
\* still returned the pair it obtained
C38_Witness ==
    \E c \in Callers :
       /\ restarts = 1 /\ gen = 2 /\ ~cache.exists
       /\ FreshManager(c) /\ call[c].didFetch
       /\ call[c].evalNow < produced[1] - SafetyMargin
       /\ call[c].pc = "done" /\ call[c].fetchedOK /\ ~call[c].savedOK
       /\ call[c].result = PairOf(2)
       /\ <<tm.client_token, tm.bearer_token>> = PairOf(2)

\* C35: when get_tokens of the pipeline's manager raises, client_token,
\* token_expiry, token_refresh, bearer_token and bearer_expiry have the values
\* they had before the call.
C35_RaiseKeepsHeldPair ==
    \A w \in Workers : ucall[w].pc = "raised" => utm[w] = ucall[w].held

\* C21: the returned track list is the well-formed items of the body, in
\* body order, and a body whose album-level sections are valid makes its
\* attempt succeed whatever its track items are.
C21_MalformedTracksSkipped ==
    /\ gat.pc = "returned" =>
          LET good == SelectSeq(Response(gat.responses[Len(gat.responses)]).items, WellFormed)
          IN  /\ Len(gat.album_response.tracks) = Len(good)
              /\ \A i \in 1..Len(good) :
                    /\ gat.album_response.tracks[i].track_id = good[i].uri
                    /\ gat.album_response.tracks[i].name = good[i].name
    /\ \A i \in 1..Len(gat.responses) :
          (gat.responses[i] # "none" /\ AlbumFieldsValid(Response(gat.responses[i])))
             => gat.history[i] = "ok"

\* an album was returned from a body of five items of which three are
\* malformed, and the first and fourth made it into the list
C21_Witness ==
    /\ gat.pc = "returned"
    /\ gat.responses[Len(gat.responses)] = "mixed"
    /\ Len(gat.album_response.tracks) = 2
    /\ gat.album_response.tracks[2].track_id = 4

\* C26: a body without album-level artists makes its attempt succeed, the
\* artist name coming from the first track's artist.
C26_ArtistFallback ==
    \A i \in 1..Len(gat.responses) :
        (/\ gat.responses[i] # "none"
         /\ Response(gat.responses[i]).albumUnion
         /\ Response(gat.responses[i]).tracksV2
         /\ Response(gat.responses[i]).artists = "absent")
           => /\ gat.history[i] = "ok"
              /\ gat.album_response.artist_name = "artist"

\* the date padded with 01 for the month and the day it lacks
PadDate(parts) == [i \in 1..3 |-> IF i <= Len(parts) THEN parts[i] ELSE 1]

\* C27: a body whose date is YYYY, YYYY-MM or YYYY-MM-DD yields a release
\* date that is present and is that date with 01 for the missing parts.
C27_ReleaseDateForms ==
    gat.pc = "returned" =>
        LET date == Response(gat.responses[Len(gat.responses)]).date
        IN  (date.present /\ Len(date.parts) \in 1..3) =>
               /\ gat.album_response.release_date.present
               /\ gat.album_response.release_date.parts = PadDate(date.parts)

C8_Witness ==
    /\ gat.pc = "raised"
    /\ Len(gat.detail) = 3
    /\ Len(gat.slept) = 2

\* position of the attempt (seed, attempt) in the order the loops run
SlotOf(seed, attempt) == (seed - 1) * token_max_retries + attempt + 1

\* C9: _fetch_bearer_token tries the seeds in order, 3 attempts each, makes no
\* attempt after a successful one and returns its token; it raises only after
\* all 15 attempts have failed, with the 15 messages in the error.
C9_FallbackContract ==
    LET n == Len(fbt.history)
    IN  /\ n <= Len(fallback_album_ids) * token_max_retries
        /\ \A i \in 1..n : SlotOf(fbt.history[i][1], fbt.history[i][2]) = i
        /\ \A i \in 1..(n - 1) : fbt.history[i][3] # "ok"
        /\ fbt.pc = "returned" =>
              /\ n >= 1 /\ fbt.history[n][3] = "ok"
              /\ fbt.result = <<"bearer", fbt.history[n][1], fbt.history[n][2] + 1>>
        /\ fbt.pc = "raised" =>
              /\ n = 15
              /\ fbt.history[n][3] # "ok"
              /\ fbt.detail = [i \in 1..15 |->
                     <<"Attempt", fbt.history[i][2] + 1,
                       fallback_album_ids[fbt.history[i][1]], fbt.history[i][3]>>]

C9_Witness ==
    /\ fbt.pc = "raised"
    /\ Len(fbt.detail) = 15
    /\ fbt.detail[15][3] = "2ITZzNNN4Zm8jVoPJaCF1P"
(***************************************************************************)
(* Claims about save_complete_album (services/cockroach.py)                *)
(***************************************************************************)
\* C3: a call that commits with the same (album, tracks, samples) as the
\* call committed just before it leaves the three tables exactly as they
\* were: no row is added and the album and track rows are rewritten in place.
C3_Idempotent ==
    [][\A t \in Conns :
         (txn[t].pc = "commit" /\ txn'[t].pc = "committed" /\ txn[t].args = lastSaved)
            => db' = db]_vars

C3_Witness ==
    /\ lastRepeat
    /\ Len(db.albums) >= 1
    /\ Len(db.tracks) >= 1
    /\ Len(db.streams) >= 1

\* C7: the streams table never holds two rows with the same
\* (track_id, album_id, play_count), whatever their timestamps.
C7_NoDuplicateSamples ==
    \A i, j \in 1..Len(db.streams) :
        i # j => StreamKey(db.streams[i]) # StreamKey(db.streams[j])

\* a committed call carried a sample whose key was already stored with an
\* earlier timestamp
C7_Witness ==
    \E t \in Conns :
        /\ txn[t].pc = "committed"
        /\ \E k \in 1..Len(txn[t].ops), i \in 1..Len(db.streams) :
              /\ txn[t].ops[k].table = "streams"
              /\ StreamKey(txn[t].ops[k].row) = StreamKey(db.streams[i])
              /\ txn[t].ops[k].row.timestamp > db.streams[i].timestamp

\* C10: a call that fails at any of its steps leaves the three tables as they
\* were when it began (no other call having committed meanwhile), and the
\* statements of a call that has not committed are not in the tables.
C10_Atomic ==
    \A t \in Conns :
        (txn[t].pc \in {"album", "tracks", "streams", "commit", "failed"} /\ txn[t].alone)
            => db = txn[t].snap

\* a call failed after its album, track and sample statements had run
C10_Witness ==
    \E t \in Conns :
        /\ txn[t].pc = "failed"
        /\ txn[t].alone
        /\ \E k \in 1..Len(txn[t].ops) : txn[t].ops[k].table = "streams"
        /\ \E k \in 1..Len(txn[t].ops) : txn[t].ops[k].table = "tracks"
        /\ db = txn[t].snap
        /\ Len(db.streams) >= 1
\* C18 (as stated): a call of save_complete_album in which a step failed has
\* ended by returning the error as a value, not by raising.
C18_ErrorReturnedAsValue ==
    \A t \in Conns : txn[t].pc = "failed" => txn[t].outcome = "returned"

\* C18 (amended): a call of save_complete_album in which a step failed has
\* raised; the upload unit that made the call has caught the exception and
\* returned a result with status "error" for its album; the exception does
\* not leave the unit.
C18_ErrorCaughtByUnit ==
    \A t \in Conns :
        /\ txn[t].pc = "failed" =>
              /\ txn[t].outcome = "raised"
              /\ txn[t].unit = [album_id |-> txn[t].args.album_data.album_id, status |-> "error"]
        /\ txn[t].pc = "committed" =>
              /\ txn[t].outcome = "returned"
              /\ txn[t].unit.status = "uploaded"
        /\ txn[t].unit.status \in {"none", "uploaded", "error"}

\* one upload unit recorded the error of a call that failed after its
\* statements had run, and another has since committed its album
C18_Witness ==
    \E t, u \in Conns :
        /\ txn[t].pc = "failed" /\ txn[t].unit.status = "error"
        /\ Len(txn[t].ops) >= 3
        /\ txn[u].pc = "committed" /\ txn[u].unit.status = "uploaded"
        /\ txn[u].snap = txn[t].snap

\* C19: the streams_count a committed call returned equals the number of
\* rows the call added to the streams table; it is 0 when every sample
\* conflicted with a stored row.
C19_CountsRowsInserted ==
    \A t \in Conns :
        txn[t].pc = "committed" => txn[t].streams_count = txn[t].inserted

(***************************************************************************)
(* Claims about the task chain (tasks.py)                                  *)
(***************************************************************************)
UploadsFor(a) == {k \in 1..Len(uploadQ) : uploadQ[k].album_id = a}

\* C11: a harvest unit whose fetch returned the album has enqueued exactly
\* one upload message for it, carrying the (track_id, name, playcount) of
\* every returned track, and has returned "success"; a harvest unit whose
\* fetch failed has enqueued none.
C11_HarvestForwards ==
    \A r \in results :
        /\ r.fetched = "returned" =>
              /\ r.status = "success"
              /\ Cardinality(UploadsFor(r.album_id)) = 1
              /\ \A k \in UploadsFor(r.album_id) :
                    uploadQ[k].tracks = AlbumTracks(r.album_id)
        /\ (r.fetched = "raised" /\ ~\E q \in results :
                                       q.album_id = r.album_id /\ q.fetched = "returned")
              => UploadsFor(r.album_id) = {}

\* C2: an album whose fetch raised yields an "error" record, and an album
\* whose fetch returned its tracks yields a "success" record and an upload
\* of those tracks, whatever happened to its siblings.
C2_PerAlbumIsolation ==
    \A r \in results :
        /\ r.fetched = "raised" => r.status = "error"
        /\ r.fetched = "returned" =>
              /\ r.status = "success"
              /\ \E k \in 1..Len(uploadQ) : uploadQ[k].album_id = r.album_id

\* a step of worker w in which its fetch_albums_batch received its page
PageStep(w) == worker[w].task = "batch" /\ worker'[w].task # "batch" /\ pageErrors' = pageErrors

\* C12: when the claimed page is empty the task resets the cursor to 0,
\* returns "complete", and sends neither a harvest message nor another
\* fetch_albums_batch message.
C12_EmptyPage ==
    [][\A w \in Workers :
         (PageStep(w) /\ GetAllAlbums(catalog, worker[w].limit, worker[w].offset) = <<>>)
            => /\ current_offset'[w] = 0
               /\ worker'[w].task = "none"
               /\ worker'[w].ret = [status |-> "complete"]
               /\ metricsQ' = metricsQ
               /\ albumsQ' = albumsQ]_vars

\* a chain over a non-empty catalog has ended on its empty page
C12_Witness ==
    \E w \in Workers :
        /\ worker[w].ret.status = "complete"
        /\ Len(catalog) > 0
        /\ current_offset[w] = 0
        /\ albumsQ = 0
        /\ \A v \in Workers : worker[v].task \notin {"batch", "sending"}

\* C13: for a non-empty page the task sends one harvest message per album of
\* the page, in page order, then one fetch_albums_batch message, and returns
\* with that send: the chain message goes out only after all the harvest
\* messages of the page, and the return does not depend on any harvest
\* result.
C13_PageFanOut ==
    [][\A w \in Workers :
         /\ (PageStep(w) /\ GetAllAlbums(catalog, worker[w].limit, worker[w].offset) # <<>>)
               => /\ worker'[w].task = "sending"
                  /\ worker'[w].albums = GetAllAlbums(catalog, worker[w].limit, worker[w].offset)
                  /\ worker'[w].sent = 0
                  /\ metricsQ' = metricsQ /\ albumsQ' = albumsQ
         /\ (worker[w].task = "sending" /\ worker'[w] # worker[w]) =>
               IF worker[w].sent < Len(worker[w].albums)
               THEN /\ metricsQ' = Append(metricsQ, worker[w].albums[worker[w].sent + 1])
                    /\ albumsQ' = albumsQ
                    /\ worker'[w].task = "sending"
                    /\ worker'[w].sent = worker[w].sent + 1
               ELSE /\ albumsQ' = albumsQ + 1
                    /\ metricsQ' = metricsQ
                    /\ worker'[w].task = "none"
                    /\ worker'[w].ret.status = "processing"
                    /\ worker'[w].ret.albums_count = Len(worker[w].albums)]_vars

\* a task has returned "processing" for a page of two albums while both
\* harvest messages and the chain message are still waiting and no harvest
\* unit has produced a result
C13_Witness ==
    \E w \in Workers :
        /\ worker[w].ret.status = "processing"
        /\ worker[w].ret.albums_count = 2
        /\ Len(metricsQ) = 2
        /\ albumsQ = 1
        /\ results = {}

\* C14: every write of the cursor's offset, by get_next_batch and by reset(),
\* happens with the cursor's lock held.
C14_WritesUnderLock ==
    \A x \in writes : x.locked

\* C4: between two resets the offsets handed to the executions of
\* fetch_albums_batch are 0, P, 2P, ... in turn: none twice, none missing.
C4_NoDoubleClaim ==
    claimed = {(i - 1) * batch_size : i \in 1..claims}

CeilDiv(k, p) == (k + p - 1) \div p

ChainEnded ==
    /\ triggers = 1
    /\ albumsQ = 0
    /\ \A w \in Workers : worker[w].task \notin {"batch", "sending"}

\* C6: with a single trigger and a catalog query that never fails, the chain
\* makes exactly ceil(K/P) + 1 page dispatches and ends with the offset at 0.
C6_ChainLength ==
    (triggers = 1 /\ pageErrors = 0) =>
        /\ dispatches <= CeilDiv(Len(catalog), batch_size) + 1
        /\ ChainEnded =>
              /\ dispatches = CeilDiv(Len(catalog), batch_size) + 1
              /\ \A w \in Workers : current_offset[w] = 0
====
